---- MODULE Spec2Model ----
(***************************************************************************)
(* Model of sphinx_a4doc/diagram_directive.py: the railroad-diagram        *)
(* directives (run / get_content), the document node they produce, the     *)
(* HTML visitor that renders the node, and the cross-reference resolver    *)
(* handed to the diagram renderer.                                         *)
(*                                                                         *)
(* Python strings that the code takes apart (rsplit, '#' + refid) are      *)
(* sequences of one-character strings; None-able strings are records       *)
(* [some, val].  An exception is a record [raised, type, msg]; str(e) is   *)
(* its msg.                                                                *)
(***************************************************************************)
EXTENDS Naturals, Sequences, FiniteSets

VARIABLES
    doctree,     \* nodes returned by the directives run so far, in document order
    pos,         \* index in doctree of the last RailroadDiagramNode visited (0: none)
    body,        \* HTMLTranslator.body: the list of output fragments
    log,         \* records written through logger.exception
    escaped,     \* the exception that left run / visit_node_html, if any
    last,        \* history: the last handler executed, its inputs and its outcome
    args,        \* the arguments of the DomainResolver.resolve call under study
    ret          \* what that call returned or raised

vars == <<doctree, pos, body, log, escaped, last, args, ret>>

----------------------------------------------------------------------------
\* Bounds of the model.
MaxNodes == 2     \* directives per batch

----------------------------------------------------------------------------
\* Values.

None == [some |-> FALSE, val |-> <<>>]
Some(s) == [some |-> TRUE, val |-> s]

NoExc == [raised |-> FALSE, type |-> "", msg |-> ""]
Exc(type, msg) == [raised |-> TRUE, type |-> type, msg |-> msg]

\* settings.py: the frozen dataclass and its defaults (character_advance in tenths).
DiagramSettings ==
    [ padding               |-> <<1, 1, 1, 1>>,
      vertical_separation   |-> 8,
      horizontal_separation |-> 10,
      arc_radius            |-> 10,
      diagram_class         |-> "railroad-diagram",
      translate_half_pixel  |-> FALSE,
      internal_alignment    |-> "AUTO_LEFT",
      character_advance     |-> 84,
      end_class             |-> "SIMPLE",
      max_width             |-> 500 ]

\* The settings a directive can hold: the defaults, or options given on the directive.
SettingsSet ==
    { DiagramSettings,
      [DiagramSettings EXCEPT !.diagram_class = "custom", !.end_class = "COMPLEX",
                              !.max_width = 0] }

\* env.ref_context.get('a4:grammar'): not set, or the grammar of the enclosing scope.
RefContexts == { None, Some(<<"L">>) }

DEFAULT_GRAMMAR == <<"_", "_", "d", "e", "f", "a", "u", "l", "t", "_", "_">>

\* Display texts and explicit targets of diagram leaves.
Texts == { <<"R">>, <<"L", ".", "R">> }
Hrefs == { None, Some(<<"L", ".", "Q">>) }
Leaves == [text : Texts, href : Hrefs, title_is_weak : BOOLEAN]

\* A diagram description, reduced to the leaves the renderer resolves, in order:
\* the descriptions the directives of a batch are given.
Diagrams ==
    { <<>>,
      << [text |-> <<"R">>, href |-> Some(<<"L", ".", "Q">>), title_is_weak |-> TRUE] >> }

SOURCE == "index.rst"

----------------------------------------------------------------------------
\* The 'a4' domain (external to this file): what it holds for a target.
\*   missing: no such rule; nouri: the builder has no URI for the rule's document;
\*   fault: the lookup fails with some other exception;
\*   other_doc / same_doc: the rule is documented in another / in this document.
DomainEntries ==
    [kind : {"missing", "nouri", "fault"}, name : {None}]
      \cup [kind : {"other_doc", "same_doc"}, name : {None, Some(<<"N">>)}]

\* What the domain holds for the leaves of the diagrams of a batch.
BatchEntries ==
    { e \in DomainEntries :
        e.kind \in {"missing", "fault"} \/ (e.kind = "same_doc" /\ e.name.some) }

NoNode == [present |-> FALSE, literal |-> <<>>, refuri |-> None, refid |-> <<>>]

\* domain.resolve_xref(env, docname, builder, 'rule', target, xref, contnode):
\* None for an unknown rule, NoUri, or a reference node wrapping the content node;
\* a non-explicit title is replaced by the rule's human-readable name when it has one.
resolve_xref(entry, xref, target, contnode) ==
    CASE entry.kind = "missing" -> [exc |-> NoExc, node |-> NoNode]
      [] entry.kind = "nouri"   -> [exc |-> Exc("NoUri", "no uri"), node |-> NoNode]
      [] entry.kind = "fault"   -> [exc |-> Exc("KeyError", "domain fault"), node |-> NoNode]
      [] OTHER ->
           [exc |-> NoExc,
            node |-> [present |-> TRUE,
                      literal |-> IF ~xref.refexplicit /\ entry.name.some
                                  THEN entry.name.val ELSE contnode,
                      refuri  |-> IF entry.kind = "other_doc"
                                  THEN Some(<<"d", "#">> \o target) ELSE None,
                      refid   |-> target]]

\* str.rsplit('.', 1)[-1]: what follows the last '.', the whole string without one.
RECURSIVE rsplit_last(_)
rsplit_last(s) ==
    IF s = <<>> THEN <<>>
    ELSE IF s[Len(s)] = "." THEN <<>>
    ELSE Append(rsplit_last(SubSeq(s, 1, Len(s) - 1)), s[Len(s)])

\* Mutant: the resolver forgets the grammar it is given.
DomainResolver_default_grammar(grammar) == [grammar |-> DEFAULT_GRAMMAR]

\* DomainResolver.__init__
DomainResolver(grammar) == [grammar |-> grammar]

\* Mutant: a weak title is replaced by the last segment of the explicit target.
resolve_title_weak_segment(text, href, title_is_weak) ==
    IF href.some /\ title_is_weak THEN rsplit_last(href.val) ELSE text

\* DomainResolver.resolve, line 43: the title is the display text.
resolve_title(text, href, title_is_weak) == text

\* DomainResolver.resolve, lines 43-49: the target to resolve.
resolve_target(text, href) ==
    IF ~href.some THEN text ELSE href.val

\* Mutant: the title counts as explicit whenever it is not weak, target or not.
resolve_explicit_title_ignores_href(href, title_is_weak) == ~title_is_weak

\* DomainResolver.resolve, lines 44-49: whether the title counts as explicit.
resolve_explicit_title(href, title_is_weak) ==
    IF ~href.some THEN FALSE ELSE ~title_is_weak

\* Mutant: the literal always holds the last segment of the target.
resolve_contnode_segment(title, target, title_is_weak) == rsplit_last(target)

\* DomainResolver.resolve, lines 72-73: the text of the literal handed to the domain.
resolve_contnode(title, target, title_is_weak) ==
    IF title_is_weak THEN rsplit_last(target) ELSE title

\* Mutant: NoUri is not caught.
resolve_try_uncaught(r) == r

\* DomainResolver.resolve, lines 64-76: the try around domain.resolve_xref; NoUri
\* becomes node = None, any other exception leaves resolve.
resolve_try(r) ==
    IF r.exc.raised /\ r.exc.type = "NoUri"
    THEN [exc |-> NoExc, node |-> NoNode]
    ELSE r

\* Mutant: the URL is always built from the refid, a refuri is ignored.
resolve_return_refid_only(title, node) ==
    IF ~node.present
    THEN [label |-> title, url |-> None]
    ELSE [label |-> node.literal, url |-> Some(<<"#">> \o node.refid)]

\* DomainResolver.resolve, lines 78-89: the returned (label, url).
resolve_return(title, node) ==
    IF ~node.present
    THEN [label |-> title, url |-> None]
    ELSE IF node.refuri.some
    THEN [label |-> node.literal, url |-> node.refuri]
    ELSE [label |-> node.literal, url |-> Some(<<"#">> \o node.refid)]

\* DomainResolver.resolve.  The result records the call (arguments, what the domain
\* holds, the pending_xref built, the target and the content node passed to the
\* domain) and either the exception that left resolve or the returned (label, url).
resolve(self, text, href, title_is_weak, entry) ==
    LET title == resolve_title(text, href, title_is_weak)
        target == resolve_target(text, href)
        explicit_title == resolve_explicit_title(href, title_is_weak)
        xref == [reftype |-> "rule", refdomain |-> "a4",
                 refexplicit |-> explicit_title, grammar |-> self.grammar]
        contnode == resolve_contnode(title, target, title_is_weak)
        r == resolve_try(resolve_xref(entry, xref, target, contnode))
        returned == resolve_return(title, r.node)
        call == [text |-> text, href |-> href, title_is_weak |-> title_is_weak,
                 entry |-> entry, xref |-> xref, target |-> target,
                 contnode |-> contnode]
    IN  IF r.exc.raised
        THEN [call |-> call, exc |-> r.exc, label |-> <<>>, url |-> None]
        ELSE [call |-> call, exc |-> NoExc, label |-> returned.label,
              url |-> returned.url]

----------------------------------------------------------------------------
\* contrib.railroad_diagrams.Diagram: the compiler and the renderer behind
\* visit_node_html.

NoSvg == [class |-> "", leaves |-> <<>>]

\* Diagram.load(description): the compiled tree, or CompileError for a malformed one.
load(diagram, fault) ==
    IF fault # "compile"
    THEN [exc |-> NoExc, data |-> diagram]
    ELSE [exc |-> Exc("CompileError", "malformed diagram"), data |-> <<>>]

\* Index of the first call that raised, 0 when none did.
FirstRaised(calls) ==
    IF \E i \in 1..Len(calls) : calls[i].exc.raised
    THEN CHOOSE i \in 1..Len(calls) :
           /\ calls[i].exc.raised
           /\ \A j \in 1..(i - 1) : ~calls[j].exc.raised
    ELSE 0

\* Diagram.render(data): every leaf is resolved through href_resolver.resolve, in
\* order, and drawn with the label and, if any, the link it returned; the scene
\* carries settings.diagram_class.  An exception from the resolver, or a fault of the
\* renderer itself, leaves render.
render(settings, href_resolver, data, entries, fault) ==
    LET all == [i \in 1..Len(data) |->
                  resolve(href_resolver, data[i].text, data[i].href,
                          data[i].title_is_weak, entries[i])]
        bad == FirstRaised(all)
    IN  IF bad # 0
        THEN [exc |-> all[bad].exc, svg |-> NoSvg, calls |-> SubSeq(all, 1, bad)]
        ELSE IF fault = "render"
        THEN [exc |-> Exc("RuntimeError", "render failed"), svg |-> NoSvg, calls |-> all]
        ELSE [exc |-> NoExc,
              svg |-> [class |-> settings.diagram_class,
                       leaves |-> [i \in 1..Len(data) |->
                                     [label |-> all[i].label, url |-> all[i].url]]],
              calls |-> all]

----------------------------------------------------------------------------
\* RailroadDiagramNode

Markup(text) == [text |-> text, svg |-> NoSvg]
SvgMarkup(svg) == [text |-> "<svg>", svg |-> svg]

P_OPEN == Markup("<p class=\"railroad-diagram-container\">")
P_CLOSE == Markup("</p>")

\* Mutant: the node is built with the default settings, not the directive's.
RailroadDiagramNode_default_options(diagram, options, grammar) ==
    [tag |-> "RailroadDiagramNode", diagram |-> diagram, options |-> DiagramSettings,
     grammar |-> grammar]

\* RailroadDiagramNode.__init__
RailroadDiagramNode(diagram, options, grammar) ==
    [tag |-> "RailroadDiagramNode", diagram |-> diagram, options |-> options,
     grammar |-> grammar]

\* Mutant: the except branch logs and raises again.
visit_except_reraise(translator, node, e) ==
    [body |-> translator.body,
     log |-> Append(translator.log,
                    [source |-> node.source, line |-> node.line, msg |-> e.msg]),
     escaped |-> e]

\* Mutant: the opening fragment was appended before the failure.
visit_except_partial(translator, node, e) ==
    [body |-> Append(translator.body, P_OPEN),
     log |-> Append(translator.log,
                    [source |-> node.source, line |-> node.line, msg |-> e.msg]),
     escaped |-> NoExc]

\* visit_node_html, lines 103-104: the except branch; the exception is logged with
\* the node's source and line and goes no further.
visit_except(translator, node, e) ==
    [body |-> translator.body,
     log |-> Append(translator.log,
                    [source |-> node.source, line |-> node.line, msg |-> e.msg]),
     escaped |-> NoExc]

\* Mutant: the else branch replaces the body instead of appending to it.
visit_else_resets(translator, svg) ==
    [body |-> <<P_OPEN, SvgMarkup(svg), P_CLOSE>>,
     log |-> translator.log,
     escaped |-> NoExc]

\* visit_node_html, lines 105-108: the else branch.
visit_else(translator, svg) ==
    [body |-> Append(Append(Append(translator.body, P_OPEN), SvgMarkup(svg)), P_CLOSE),
     log |-> translator.log,
     escaped |-> NoExc]

\* RailroadDiagramNode.visit_node_html(self, node).  ext is what the collaborators do
\* on this visit: whether the description compiles, what the domain holds for each
\* leaf, whether the renderer is sound.
visit_node_html(translator, node, ext) ==
    LET resolver == DomainResolver(node.grammar)
        dia == [settings |-> node.options, href_resolver |-> resolver]
        loaded == load(node.diagram, ext.fault)
        rendered == IF loaded.exc.raised
                    THEN [exc |-> loaded.exc, svg |-> NoSvg, calls |-> <<>>]
                    ELSE render(dia.settings, dia.href_resolver, loaded.data,
                                ext.entries, ext.fault)
        out == IF rendered.exc.raised
               THEN visit_except(translator, node, rendered.exc)
               ELSE visit_else(translator, rendered.svg)
    IN  [body |-> out.body, log |-> out.log, escaped |-> out.escaped,
         dia |-> dia, exc |-> rendered.exc, svg |-> rendered.svg,
         calls |-> rendered.calls]

----------------------------------------------------------------------------
\* The directives.

\* yaml.safe_load of the directive's content: a parsed description or a YAML error.
YamlOutcomes ==
    { [exc |-> Exc("YAMLError", "could not parse yaml"), value |-> <<>>] }
      \cup { [exc |-> NoExc, value |-> g] : g \in Diagrams }

\* Renderer().visit(tree.content): the diagram description of a rule, or a fault.
VisitorOutcomes ==
    { [exc |-> Exc("ValueError", "cannot render the rule"), value |-> <<>>] }
      \cup { [exc |-> NoExc, value |-> g] : g \in Diagrams }

\* The body of a lexer-rule-diagram / parser-rule-diagram directive: text that is no
\* rule at all, text that gives a rule without content, text of a rule.
RawRules == { "unparsable", "empty", "rule" }

\* What Renderer().visit does when handed no content.
VisitNone == [exc |-> Exc("AttributeError", "no content"), value |-> <<>>]

\* The directives of one class, as the parser can hand them to run.
Directives(kind) ==
    IF kind = "railroad-diagram"
    THEN [kind : {kind}, settings : SettingsSet, yaml : YamlOutcomes]
    ELSE [kind : {kind}, settings : SettingsSet, raw : RawRules \ {"rule"},
          tree : {VisitNone}]
           \cup [kind : {kind}, settings : SettingsSet, raw : {"rule"},
                 tree : VisitorOutcomes]

NoRule == [present |-> FALSE, has_content |-> FALSE]

\* ModelCache.instance().from_text(content, ...): the model of a one-rule grammar
\* 'grammar X; <name> : <raw> ;'.
from_text(content) ==
    [name |-> content.name,
     rule |-> CASE content.raw = "unparsable" -> NoRule
                [] content.raw = "empty" -> [present |-> TRUE, has_content |-> FALSE]
                [] OTHER -> [present |-> TRUE, has_content |-> TRUE]]

\* Model.lookup(name)
lookup(model, name) ==
    IF model.name = name THEN model.rule ELSE NoRule

\* RailroadDiagram.get_content
RailroadDiagram_get_content(d) ==
    [exc |-> d.yaml.exc, value |-> d.yaml.value,
     loaded |-> <<>>, lookups |-> <<>>, visits |-> 0]

\* Mutant: only an absent rule is rejected, a rule without content is visited.
LexerRuleDiagram_get_content_none_only(d) ==
    LET content == [name |-> "ROOT", raw |-> d.raw]
        model == from_text(content)
        tree == lookup(model, "ROOT")
    IN  IF ~tree.present
        THEN [exc |-> Exc("RuntimeError", "cannot parse the rule"), value |-> <<>>,
              loaded |-> <<content>>, lookups |-> <<"ROOT">>, visits |-> 0]
        ELSE [exc |-> d.tree.exc, value |-> d.tree.value,
              loaded |-> <<content>>, lookups |-> <<"ROOT">>, visits |-> 1]

\* LexerRuleDiagram.get_content.  loaded lists the texts handed to the process-wide
\* ModelCache.instance(), lookups the names looked up in the model, visits counts the
\* calls of Renderer().visit.
LexerRuleDiagram_get_content(d) ==
    LET content == [name |-> "ROOT", raw |-> d.raw]
        model == from_text(content)
        tree == lookup(model, "ROOT")
    IN  IF ~tree.present \/ ~tree.has_content
        THEN [exc |-> Exc("RuntimeError", "cannot parse the rule"), value |-> <<>>,
              loaded |-> <<content>>, lookups |-> <<"ROOT">>, visits |-> 0]
        ELSE [exc |-> d.tree.exc, value |-> d.tree.value,
              loaded |-> <<content>>, lookups |-> <<"ROOT">>, visits |-> 1]

\* ParserRuleDiagram.get_content
ParserRuleDiagram_get_content(d) ==
    LET content == [name |-> "root", raw |-> d.raw]
        model == from_text(content)
        tree == lookup(model, "root")
    IN  IF ~tree.present \/ ~tree.has_content
        THEN [exc |-> Exc("RuntimeError", "cannot parse the rule"), value |-> <<>>,
              loaded |-> <<content>>, lookups |-> <<"root">>, visits |-> 0]
        ELSE [exc |-> d.tree.exc, value |-> d.tree.value,
              loaded |-> <<content>>, lookups |-> <<"root">>, visits |-> 1]

\* self.get_content(), dispatched on the directive's class.
get_content(d) ==
    CASE d.kind = "railroad-diagram" -> RailroadDiagram_get_content(d)
      [] d.kind = "lexer-rule-diagram" -> LexerRuleDiagram_get_content(d)
      [] OTHER -> ParserRuleDiagram_get_content(d)

\* self.state_machine.reporter.error(message, line=lineno)
reporter_error(message, lineno) ==
    [tag |-> "system_message", level |-> "ERROR", message |-> message, line |-> lineno]

\* Mutant: run without the try: an exception of get_content leaves run.
run_uncaught(d, lineno, ref_context) ==
    LET grammar == IF ref_context.some THEN ref_context.val ELSE DEFAULT_GRAMMAR
        c == get_content(d)
    IN  [nodes |-> IF c.exc.raised
                   THEN <<>>
                   ELSE <<RailroadDiagramNode(c.value, d.settings, grammar)>>,
         escaped |-> c.exc,
         content |-> c,
         settings |-> d.settings]

\* RailroadDiagram.run.  The result records the returned list, the exception that
\* left run (none: every Exception of get_content is caught), what get_content did
\* and the settings the directive holds afterwards.
run(d, lineno, ref_context) ==
    LET grammar == IF ref_context.some THEN ref_context.val ELSE DEFAULT_GRAMMAR
        c == get_content(d)
    IN  [nodes |-> IF c.exc.raised
                   THEN <<reporter_error(c.exc.msg, lineno)>>
                   ELSE <<RailroadDiagramNode(c.value, d.settings, grammar)>>,
         escaped |-> NoExc,
         content |-> c,
         settings |-> d.settings]

----------------------------------------------------------------------------
\* The batch.

IsDiagramNode(n) == n.tag = "RailroadDiagramNode"

\* The next RailroadDiagramNode after position p in document order, 0 when none.
NextNode(p) ==
    IF \E i \in (p + 1)..Len(doctree) : IsDiagramNode(doctree[i])
    THEN CHOOSE i \in (p + 1)..Len(doctree) :
           /\ IsDiagramNode(doctree[i])
           /\ \A j \in (p + 1)..(i - 1) : ~IsDiagramNode(doctree[j])
    ELSE 0

\* The parser adds the returned nodes to the document; a node without source and
\* line of its own takes them from the place it is added at.
Placed(n, source, line) ==
    IF IsDiagramNode(n)
    THEN [tag |-> n.tag, diagram |-> n.diagram, options |-> n.options,
          grammar |-> n.grammar, source |-> source, line |-> line]
    ELSE n

\* What the collaborators do during one visit: whether the description compiles and
\* the renderer is sound, and what the domain holds for each leaf the renderer
\* resolves (none when the description does not compile).
Externals(node) ==
    [fault : {"none", "render"}, entries : [1..Len(node.diagram) -> BatchEntries]]
      \cup [fault : {"compile"}, entries : {<<>>}]

NoArgs == <<>>

Init ==
    /\ doctree = <<>>
    /\ pos = 0
    /\ body = <<>>
    /\ log = <<>>
    /\ escaped = NoExc
    /\ last = <<>>
    /\ args = NoArgs
    /\ ret = <<>>

\* One directive of the given class is run, at the next line of the document.
Run(kind) ==
    /\ ~escaped.raised
    /\ Len(doctree) < MaxNodes
    /\ \E d \in Directives(kind), ctx \in RefContexts :
         LET lineno == Len(doctree) + 1
             r == run(d, lineno, ctx)
         IN  /\ escaped' = r.escaped
             /\ doctree' = IF r.escaped.raised THEN doctree
                           ELSE doctree \o [i \in 1..Len(r.nodes) |->
                                              Placed(r.nodes[i], SOURCE, lineno)]
             /\ last' = <<[op |-> "run", d |-> d, lineno |-> lineno,
                           ref_context |-> ctx, ret |-> r]>>
    /\ UNCHANGED <<pos, body, log, args, ret>>

RunRailroadDiagram == Run("railroad-diagram")
RunLexerRuleDiagram == Run("lexer-rule-diagram")
RunParserRuleDiagram == Run("parser-rule-diagram")

\* The HTML translator reaches the next RailroadDiagramNode of the document.
Visit ==
    /\ ~escaped.raised
    /\ NextNode(pos) # 0
    /\ LET i == NextNode(pos)
           node == doctree[i]
       IN  \E ext \in Externals(node) :
             LET v == visit_node_html([body |-> body, log |-> log], node, ext)
             IN  /\ pos' = i
                 /\ body' = v.body
                 /\ log' = v.log
                 /\ escaped' = v.escaped
                 /\ last' = <<[op |-> "visit", index |-> i, node |-> node,
                               ext |-> ext, ret |-> v]>>
    /\ UNCHANGED <<doctree, args, ret>>

Next ==
    \/ RunRailroadDiagram
    \/ RunLexerRuleDiagram
    \/ RunParserRuleDiagram
    \/ Visit

Spec == Init /\ [][Next]_vars

----------------------------------------------------------------------------
\* DomainResolver.resolve on its own: the arguments are drawn, then the call is made.

ResolveArgs ==
    [grammar : {DEFAULT_GRAMMAR, <<"L">>}, text : Texts, href : Hrefs,
     title_is_weak : BOOLEAN, entry : DomainEntries]

ResolverInit ==
    /\ doctree = <<>>
    /\ pos = 0
    /\ body = <<>>
    /\ log = <<>>
    /\ escaped = NoExc
    /\ last = <<>>
    /\ args \in { <<a>> : a \in ResolveArgs }
    /\ ret = <<>>

ResolveCall ==
    /\ ret = <<>>
    /\ ret' = << resolve(DomainResolver(args[1].grammar), args[1].text, args[1].href,
                         args[1].title_is_weak, args[1].entry) >>
    /\ UNCHANGED <<doctree, pos, body, log, escaped, last, args>>

ResolverNext == ResolveCall

ResolverSpec == ResolverInit /\ [][ResolverNext]_vars

----------------------------------------------------------------------------
\* Properties.

AfterRun == last # <<>> /\ last[1].op = "run"
AfterVisit == last # <<>> /\ last[1].op = "visit"

\* The RailroadDiagramNodes among the first p nodes of the document.
DiagramNodesUpTo(p) == { i \in 1..p : IsDiagramNode(doctree[i]) }

IsPrefix(s, t) == Len(s) <= Len(t) /\ SubSeq(t, 1, Len(s)) = s

\* C1: one bad diagram never aborts the batch.  No exception leaves
\* visit_node_html; when load or render raised, the last log record carries the
\* exception's message with the node's source and line; every node reached so far was
\* either logged or rendered (three fragments each), none was skipped; the traversal
\* stops at no node but the last.
C1_BadDiagramNeverAborts ==
    /\ ~escaped.raised
    /\ (AfterVisit /\ last[1].ret.exc.raised) =>
         /\ log # <<>>
         /\ log[Len(log)] = [source |-> last[1].node.source,
                             line |-> last[1].node.line,
                             msg |-> last[1].ret.exc.msg]
    /\ Len(log) * 3 + Len(body) = Cardinality(DiagramNodesUpTo(pos)) * 3
    /\ (AfterVisit /\ NextNode(pos) = 0) =>
         \A i \in (pos + 1)..Len(doctree) : ~IsDiagramNode(doctree[i])

\* C1 witness: the first diagram failed (it is logged) and a later one was rendered.
C1_Witness ==
    /\ AfterVisit
    /\ ~last[1].ret.exc.raised
    /\ log # <<>>
    /\ log[1].line < last[1].node.line
    /\ Len(body) = 3

\* C2: a diagram is never partially applied to the output.  Every step leaves the
\* body as it was, which is what a failed visit does, or appends exactly the opening
\* fragment, the svg of this visit and the closing fragment, which is what a
\* successful visit does.
C2_BodyNeverPartial ==
    [][ \/ /\ body' = body
           /\ (last' # <<>> /\ last'[1].op = "visit" /\ pos' # pos)
                => last'[1].ret.exc.raised
        \/ /\ last' # <<>> /\ last'[1].op = "visit"
           /\ ~last'[1].ret.exc.raised
           /\ body' = body \o <<P_OPEN, SvgMarkup(last'[1].ret.svg), P_CLOSE>> ]_vars

\* C2 witness: a visit failed after an earlier one had succeeded; the body holds
\* the three fragments of the earlier one and nothing else.
C2_Witness ==
    /\ AfterVisit
    /\ last[1].ret.exc.raised
    /\ Len(body) = 3
    /\ body[1] = P_OPEN /\ body[3] = P_CLOSE

\* C3: run returns exactly one node and never raises because of get_content: a
\* reporter error with the exception's message and the directive's line when
\* get_content raised, and otherwise a RailroadDiagramNode holding the parsed content;
\* that node is the one added to the document.
C3_RunReportsError ==
    AfterRun =>
      LET r == last[1].ret
          c == get_content(last[1].d)
      IN  /\ ~r.escaped.raised
          /\ Len(r.nodes) = 1
          /\ c.exc.raised =>
               /\ r.nodes[1].tag = "system_message"
               /\ r.nodes[1].level = "ERROR"
               /\ r.nodes[1].message = c.exc.msg
               /\ r.nodes[1].line = last[1].lineno
          /\ ~c.exc.raised =>
               /\ r.nodes[1].tag = "RailroadDiagramNode"
               /\ r.nodes[1].diagram = c.value
          /\ doctree # <<>>
          /\ doctree[Len(doctree)].tag = r.nodes[1].tag

\* C3 witness: get_content raised in a run that followed another one.
C3_Witness ==
    /\ AfterRun
    /\ get_content(last[1].d).exc.raised
    /\ Len(doctree) = 2
    /\ doctree[2].tag = "system_message"

\* What model.lookup gives for the rule of a lexer / parser rule directive.
RuleOf(d) ==
    LET name == IF d.kind = "lexer-rule-diagram" THEN "ROOT" ELSE "root"
    IN  lookup(from_text([name |-> name, raw |-> d.raw]), name)

\* C4: rule-not-found is surfaced and not retried.  When the lookup of a lexer or
\* parser rule directive gives no rule, or a rule without content, the model was
\* looked up once, the visitor was not called, and run returned the reported error
\* 'cannot parse the rule' at the directive's line, not a diagram node.
C4_RuleNotFound ==
    (/\ AfterRun
     /\ last[1].d.kind # "railroad-diagram"
     /\ (~RuleOf(last[1].d).present \/ ~RuleOf(last[1].d).has_content))
      => /\ Len(last[1].ret.content.lookups) = 1
         /\ last[1].ret.content.visits = 0
         /\ last[1].ret.nodes =
              <<reporter_error("cannot parse the rule", last[1].lineno)>>
         /\ ~IsDiagramNode(doctree[Len(doctree)])

\* C4 witness: a lexer rule directive whose rule has no content has been run.
C4_Witness ==
    /\ AfterRun
    /\ last[1].d.kind = "lexer-rule-diagram"
    /\ RuleOf(last[1].d).present
    /\ ~RuleOf(last[1].d).has_content

\* The resolve call under study has been made.
Resolved == ret # <<>>

\* The domain resolved the target / did not resolve it (None or NoUri).
Succeeded(a) == a.entry.kind \in {"other_doc", "same_doc"}
Failed(a) == a.entry.kind \in {"missing", "nouri"}

\* C5: without an explicit href, resolve resolves the display text itself, with a
\* non-explicit title: the target handed to the domain is the text; on success the
\* result is a label (the rule's human-readable name when it has one) and a URL, on
\* failure it is (display_text, None).
C5_NoHrefResolvesText ==
    (Resolved /\ ~args[1].href.some) =>
      LET a == args[1]
          r == ret[1]
      IN  /\ r.call.target = a.text
          /\ ~r.call.xref.refexplicit
          /\ Succeeded(a) =>
               /\ ~r.exc.raised
               /\ r.url.some
               /\ r.label # <<>>
               /\ a.entry.name.some => r.label = a.entry.name.val
          /\ Failed(a) =>
               /\ ~r.exc.raised
               /\ r.label = a.text
               /\ r.url = None

\* C5 witness: a text without href was resolved to a rule with a human-readable name.
C5_Witness ==
    /\ Resolved
    /\ ~args[1].href.some
    /\ Succeeded(args[1])
    /\ args[1].entry.name.some
    /\ ret[1].label # args[1].text

\* C6: with an explicit href and a title that is not weak, the href is the target,
\* the title is explicit, and the label returned is the display text whatever the
\* resolution gives: a refuri, a refid, or nothing.
C6_ExplicitTitleKept ==
    (Resolved /\ args[1].href.some /\ ~args[1].title_is_weak) =>
      LET a == args[1]
          r == ret[1]
      IN  /\ r.call.target = a.href.val
          /\ r.call.xref.refexplicit
          /\ (Succeeded(a) \/ Failed(a)) =>
               /\ ~r.exc.raised
               /\ r.label = a.text
          /\ Succeeded(a) <=> r.url.some

\* C6 witness: an explicit href resolved to a named rule of this document (a refid).
C6_Witness ==
    /\ Resolved
    /\ args[1].href.some
    /\ ~args[1].title_is_weak
    /\ args[1].entry.kind = "same_doc"
    /\ args[1].entry.name.some
    /\ ret[1].url = Some(<<"#">> \o args[1].href.val)

\* C7: with an explicit href and a weak title, the href is the target and the title is
\* not explicit, so that on success the label is the rule's human-readable name when
\* it has one; when the resolution fails the label is the display text supplied, not
\* the href nor its last segment, and there is no URL.
C7_WeakTitleFallsBack ==
    (Resolved /\ args[1].href.some /\ args[1].title_is_weak) =>
      LET a == args[1]
          r == ret[1]
      IN  /\ r.call.target = a.href.val
          /\ ~r.call.xref.refexplicit
          /\ (Succeeded(a) /\ a.entry.name.some) =>
               /\ r.label = a.entry.name.val
               /\ r.url.some
          /\ Failed(a) =>
               /\ r.label = a.text
               /\ r.label # a.href.val
               /\ r.label # rsplit_last(a.href.val)
               /\ r.url = None

\* C7 witness: a weak title whose href did not resolve.
C7_Witness ==
    /\ Resolved
    /\ args[1].href.some
    /\ args[1].title_is_weak
    /\ Failed(args[1])
    /\ ret[1].label = args[1].text

\* C8: a resolution failure is not an error.  Whatever the text, the href and
\* title_is_weak, when the domain returns None or raises NoUri, resolve raises nothing
\* and returns (display_text, None).
C8_FailureIsNoError ==
    (Resolved /\ Failed(args[1])) =>
      /\ ~ret[1].exc.raised
      /\ ret[1].label = args[1].text
      /\ ret[1].url = None

\* C8 witness: the domain raised NoUri for the explicit href of a weak title.
C8_Witness ==
    /\ Resolved
    /\ args[1].entry.kind = "nouri"
    /\ args[1].href.some
    /\ args[1].title_is_weak
    /\ ~ret[1].url.some

C10_SettingsPassedDown ==
    [][ /\ \A i \in 1..Len(doctree) :
             IsDiagramNode(doctree[i]) =>
               (IsDiagramNode(doctree'[i]) /\ doctree'[i].options = doctree[i].options)
        /\ (last' # <<>> /\ last'[1].op = "run") =>
             /\ last'[1].ret.settings = last'[1].d.settings
             /\ \A i \in 1..Len(last'[1].ret.nodes) :
                  IsDiagramNode(last'[1].ret.nodes[i]) =>
                    /\ last'[1].ret.nodes[i].options = last'[1].d.settings
                    /\ doctree'[Len(doctree')].options = last'[1].d.settings
        /\ (last' # <<>> /\ last'[1].op = "visit") =>
             /\ last'[1].ret.dia.settings = doctree[last'[1].index].options
             /\ last'[1].ret.dia.settings \in SettingsSet
             /\ ~last'[1].ret.exc.raised =>
                  last'[1].ret.svg.class = doctree[last'[1].index].options.diagram_class
      ]_vars

\* C10 witness: a node holding settings other than the defaults was visited, and the
\* visit failed.
C10_Witness ==
    /\ AfterVisit
    /\ last[1].ret.exc.raised
    /\ last[1].ret.dia.settings # DiagramSettings
    /\ doctree[last[1].index].options = last[1].ret.dia.settings

\* The node the domain gave for the resolve call under study.
ResolvedNode ==
    resolve_xref(args[1].entry, ret[1].call.xref, ret[1].call.target,
                 ret[1].call.contnode).node

\* C11: resolve returns a URL of None exactly when the resolution failed (the domain
\* returned None or raised NoUri); on every successful resolution the URL is the
\* reference's refuri when it has one and otherwise '#' followed by its refid, and the
\* label is the text of the literal inside the resolved node.
C11_UrlIffResolved ==
    (Resolved /\ ~ret[1].exc.raised) =>
      LET a == args[1]
          r == ret[1]
          n == ResolvedNode
      IN  /\ (r.url = None) <=> Failed(a)
          /\ Succeeded(a) =>
               /\ n.present
               /\ r.label = n.literal
               /\ n.refuri.some => r.url = n.refuri
               /\ ~n.refuri.some => r.url = Some(<<"#">> \o n.refid)

\* C11 witness: a target resolved to a rule of another document, whose reference
\* carries a refuri.
C11_Witness ==
    /\ Resolved
    /\ args[1].entry.kind = "other_doc"
    /\ ResolvedNode.refuri.some
    /\ ret[1].url = ResolvedNode.refuri
    /\ ret[1].url # Some(<<"#">> \o ResolvedNode.refid)

\* The grammar run takes from the environment's ref_context.
GrammarOf(ref_context) ==
    IF ref_context.some THEN ref_context.val ELSE DEFAULT_GRAMMAR

\* C12: the grammar is carried unchanged from the directive to the resolution.  The
\* node run returns holds the 'a4:grammar' of the ref_context, '__default__' when it
\* is not set; no later step changes the grammar of a node of the document; and every
\* cross-reference built during the visit of a node carries the grammar of that node.
C12_GrammarCarried ==
    [][ /\ \A i \in 1..Len(doctree) :
             IsDiagramNode(doctree[i]) =>
               (IsDiagramNode(doctree'[i]) /\ doctree'[i].grammar = doctree[i].grammar)
        /\ (last' # <<>> /\ last'[1].op = "run") =>
             \A i \in 1..Len(last'[1].ret.nodes) :
               IsDiagramNode(last'[1].ret.nodes[i]) =>
                 /\ last'[1].ret.nodes[i].grammar = GrammarOf(last'[1].ref_context)
                 /\ doctree'[Len(doctree')].grammar = GrammarOf(last'[1].ref_context)
        /\ (last' # <<>> /\ last'[1].op = "visit") =>
             \A k \in 1..Len(last'[1].ret.calls) :
               last'[1].ret.calls[k].call.xref.grammar
                 = doctree[last'[1].index].grammar ]_vars

\* C12 witness: a node run under grammar 'L' was visited after a node run without a
\* grammar, and the cross-reference built for its leaf carries 'L'.
C12_Witness ==
    /\ AfterVisit
    /\ last[1].index = 2
    /\ IsDiagramNode(doctree[1])
    /\ doctree[1].grammar = DEFAULT_GRAMMAR
    /\ doctree[2].grammar = <<"L">>
    /\ Len(last[1].ret.calls) = 1
    /\ last[1].ret.calls[1].call.xref.grammar = <<"L">>

====
